---- MODULE Spec2Model ----
(***************************************************************************)
(* tg_srv: the obfuscated-transport bootstrap of an MTProto-style server.  *)
(* The model follows src/src/main.rs: main's accept loop and               *)
(* handle_connection, statement by statement, over a byte-level model of   *)
(* the TCP stream, the BufReader, the AES-256-CTR keystream and the TL     *)
(* (de)serialisation of ReqPqMulti / ResPq.                                *)
(*                                                                         *)
(* Bytes are 0..255.  Integers wider than a byte (i64, u32, u128) are kept *)
(* as sequences of 16-bit limbs, most significant limb first, so that the  *)
(* little-endian wire encoding is a real conversion.                       *)
(***************************************************************************)
EXTENDS Integers, Sequences, FiniteSets, TLC

\* ------------------------------------------------------------------ bounds

\* Number of client connections made during a run.
MaxConns == 2

\* ------------------------------------------------------- program constants

\* std's BufReader default capacity (BufReader::new, main.rs:34).
BufCapacity == 8192

\* Sizes of the three fixed buffers of handle_connection (main.rs:35-38).
InitLen == 64
PrefixLen == 56
EncryptedInitLen == 8

\* ------------------------------------------------------------ byte helpers

Min(a, b) == IF a < b THEN a ELSE b

Zeros(n) == [i \in 1..n |-> 0]

Fill(n, b) == [i \in 1..n |-> b]

Ramp(n, from) == [i \in 1..n |-> (from + i - 1) % 256]

\* Iterator adaptors used by the key derivation: .rev(), .skip(n), .take(n).
Rev(s) == [i \in 1..Len(s) |-> s[Len(s) + 1 - i]]

Skip(s, n) == SubSeq(s, n + 1, Len(s))

Take(s, n) == SubSeq(s, 1, Min(n, Len(s)))

\* Bitwise exclusive-or of two bits, of two 4-bit values (a table), of two bytes.
XorBit(a, b) == (a + b) % 2

XorNibble ==
    [a \in 0..15 |-> [b \in 0..15 |->
        XorBit(a % 2, b % 2)
        + 2 * XorBit((a \div 2) % 2, (b \div 2) % 2)
        + 4 * XorBit((a \div 4) % 2, (b \div 4) % 2)
        + 8 * XorBit(a \div 8, b \div 8)]]

Xor(a, b) == 16 * XorNibble[a \div 16][b \div 16] + XorNibble[a % 16][b % 16]

\* ------------------------------------------------- Aes256Ctr64Be keystream
\* The block cipher is a library; it is modelled as a deterministic
\* pseudo-random function of (key, iv, keystream offset).  Only the stream
\* cipher structure matters here: byte n of the data is xored with byte n of
\* the keystream, and the keystream depends on key and iv, order included.

\* A position-weighted checksum of s[lo..hi] (divide and conquer).
RECURSIVE WSum(_, _, _)
WSum(s, lo, hi) ==
    IF lo > hi THEN 0
    ELSE IF lo = hi THEN (s[lo] + 1) * (lo * lo + 3 * lo + 1)
    ELSE LET mid == (lo + hi) \div 2
         IN (WSum(s, lo, mid) + WSum(s, mid + 1, hi)) % 65521

CipherSeed(key, iv) == (WSum(key, 1, Len(key)) * 131 + WSum(iv, 1, Len(iv)) * 7 + 7) % 65521

KeystreamByte(seed, n) ==
    (((seed % 4093) + 1) * (n + 3) + (n \div 16) * 89 + (seed \div 256) + 101) % 256

\* cipher.apply_keystream(data) for a cipher created by
\* Aes256Ctr64Be::new(key, iv) that has already produced pos keystream bytes.
ApplyKeystream(key, iv, pos, data) ==
    LET seed == CipherSeed(key, iv)
    IN [i \in 1..Len(data) |-> Xor(data[i], KeystreamByte(seed, pos + i - 1))]

\* ------------------------------------------------------- TL serialisation

\* Little-endian bytes of an integer held as 16-bit limbs (most significant
\* limb first): i64 is 4 limbs, u32 and i32 are 2.
SerializeInt(limbs) ==
    LET n == Len(limbs)
    IN [i \in 1..(2 * n) |->
            LET l == limbs[n - ((i - 1) \div 2)]
            IN IF i % 2 = 1 THEN l % 256 ELSE l \div 256]

\* The bytes read most significant byte first.
DeserializeIntBigEndian(bytes) ==
    LET n == Len(bytes) \div 2
    IN [j \in 1..n |-> bytes[2 * j - 1] * 256 + bytes[2 * j]]

\* The integer (as limbs) held by little-endian bytes.
DeserializeInt(bytes) ==
    LET n == Len(bytes) \div 2
    IN [j \in 1..n |-> bytes[2 * (n - j) + 2] * 256 + bytes[2 * (n - j) + 1]]

\* Vec<u8> / bytes: one length byte (len <= 253), the bytes, zero padding to a
\* multiple of 4.
SerializeBytes(b) ==
    LET len == Len(b) + 1
        padding == (4 - (len % 4)) % 4
    IN <<Len(b)>> \o b \o Zeros(padding)

\* Vec<i64>: the vector constructor id 0x1cb5c415, the count as i32, the items.
RECURSIVE SerializeItems(_)
SerializeItems(v) ==
    IF v = <<>> THEN <<>> ELSE SerializeInt(Head(v)) \o SerializeItems(Tail(v))

SerializeVector(v) ==
    SerializeInt(<<7349, 50197>>) \o SerializeInt(<<0, Len(v)>>) \o SerializeItems(v)

\* ------------------------------------------- grammers_tl_types::Cursor

\* A cursor read that pads with zeros instead of failing at the end of input.
CursorReadLenient(cur, n) ==
    [ok |-> TRUE,
     bytes |-> [i \in 1..n |-> IF cur.pos + i <= Len(cur.buf) THEN cur.buf[cur.pos + i] ELSE 0],
     cur |-> [buf |-> cur.buf, pos |-> cur.pos + n]]

\* One fixed-width read of n bytes from a forward-only cursor [buf, pos]:
\* fails (unexpected end of input) when fewer than n bytes remain.
CursorRead(cur, n) ==
    IF cur.pos + n > Len(cur.buf)
    THEN [ok |-> FALSE, bytes |-> <<>>, cur |-> cur]
    ELSE [ok |-> TRUE,
          bytes |-> SubSeq(cur.buf, cur.pos + 1, cur.pos + n),
          cur |-> [buf |-> cur.buf, pos |-> cur.pos + n]]

\* ----------------------------------------------------------- ReqPqMulti

NoReq == [ok |-> FALSE]

\* ReqPqMulti::parse: five sequential deserialisations, each propagating its
\* error with `?`.  Nothing is checked after the fifth field.
ReqPqMultiParse(packet) ==
    LET f1 == CursorRead([buf |-> packet, pos |-> 0], 8)
        f2 == CursorRead(f1.cur, 8)
        f3 == CursorRead(f2.cur, 4)
        f4 == CursorRead(f3.cur, 4)
        f5 == CursorRead(f4.cur, 16)
    IN IF f1.ok /\ f2.ok /\ f3.ok /\ f4.ok /\ f5.ok
       THEN [ok |-> TRUE,
             auth_key_id |-> DeserializeInt(f1.bytes),
             message_id |-> DeserializeInt(f2.bytes),
             message_length |-> DeserializeInt(f3.bytes),
             magic |-> DeserializeInt(f4.bytes),
             nonce |-> f5.bytes,
             consumed |-> f5.cur.pos]
       ELSE NoReq

\* ---------------------------------------------------------------- ResPq

\* SERVER_NONCE = 0x1337u128.to_le_bytes()
SERVER_NONCE == <<55, 19>> \o Zeros(14)

\* 0x17ED48941A08F981u64.to_le_bytes()
PQ == <<129, 249, 8, 26, 148, 72, 237, 23>>

\* magic: 0x05162463
ResPqMagic == <<1302, 9315>>

\* server_public_key_fingerprints: vec![0xd09d1d85de64fd85]
Fingerprints == << <<53405, 7557, 56932, 64901>> >>

\* `as i64` of the u128 nanosecond count (8 limbs): the low 64 bits.
AsI64(nanos) == SubSeq(nanos, 5, 8)

NoRes == [ok |-> FALSE]

\* generate with nonce and server_nonce filled the wrong way round.
ResPqGenerateSwapped(nonce, pq, nanos) ==
    [ok |-> TRUE,
     auth_key_id |-> <<0, 0, 0, 0>>,
     message_id |-> AsI64(nanos),
     message_length |-> <<0, 0>>,
     magic |-> ResPqMagic,
     nonce |-> SERVER_NONCE,
     server_nonce |-> nonce,
     pq |-> pq,
     server_public_key_fingerprints |-> Fingerprints]

\* ResPq::generate(nonce, pq), with the clock reading it takes made explicit.
ResPqGenerate(nonce, pq, nanos) ==
    [ok |-> TRUE,
     auth_key_id |-> <<0, 0, 0, 0>>,
     message_id |-> AsI64(nanos),
     message_length |-> <<0, 0>>,
     magic |-> ResPqMagic,
     nonce |-> nonce,
     server_nonce |-> SERVER_NONCE,
     pq |-> pq,
     server_public_key_fingerprints |-> Fingerprints]

\* ResPq::ser
ResPqSer(r) ==
    SerializeInt(r.auth_key_id)
    \o SerializeInt(r.message_id)
    \o SerializeInt(r.message_length)
    \o SerializeInt(r.magic)
    \o r.nonce
    \o r.server_nonce
    \o SerializeBytes(r.pq)
    \o SerializeVector(r.server_public_key_fingerprints)

\* ------------------------------------- grammers_mtproto::transport::Abridged

\* The transport tag the first pack of an Abridged transport emits.
AbridgedTag == 239

\* Abridged::new().pack(input, output) on an empty output: this is the first
\* pack of the transport, so the tag byte comes first, then the length in
\* 4-byte words (one byte below 127, else 0x7f and three bytes), then input.
AbridgedPack(input) ==
    LET len == Len(input) \div 4
    IN <<AbridgedTag>>
       \o (IF len < 127
           THEN <<len>>
           ELSE <<127, len % 256, (len \div 256) % 256, len \div 65536>>)
       \o input

\* A split that takes one byte more.
SplitToRestTwo(b, at) == SubSeq(b, at + 2, Len(b))

\* BytesMut::split_to(at) returns the first at bytes and leaves the rest.
SplitToRest(b, at) == SubSeq(b, at + 1, Len(b))

\* The encryptor keyed with the forward-derived key.
EncryptorKeyForward(k) == k.encrypt_key

\* Lines 80-88: pack, drop one leading byte, encrypt with a fresh cipher.
EncryptorKey(k) == k.decrypt_key

EncryptorIv(k) == k.decrypt_iv

ResPqMtproto(r, k) ==
    ApplyKeystream(EncryptorKey(k), EncryptorIv(k), 0, SplitToRest(AbridgedPack(ResPqSer(r)), 1))

\* -------------------------------------------------------- key derivation

NoKeys == [encrypt_key |-> <<>>, encrypt_iv |-> <<>>, decrypt_key |-> <<>>, decrypt_iv |-> <<>>]

\* init.into_iter().skip(8).take(32)
EncryptKey(buf) == Take(Skip(buf, 8), 32)

\* The forward iv taken 8 bytes further on.
EncryptIvShifted(buf) == Take(Skip(buf, 48), 16)

\* init.into_iter().skip(40).take(16)
EncryptIv(buf) == Take(Skip(buf, 40), 16)

\* The reverse key derived without .rev().
DecryptKeyNoRev(buf) == Take(Skip(buf, 8), 32)

\* init.into_iter().rev().skip(8).take(32)
DecryptKey(buf) == Take(Skip(Rev(buf), 8), 32)

\* The reverse iv taken 8 bytes further on.
DecryptIvFurther(buf) == Take(Skip(Rev(buf), 48), 16)

\* init.into_iter().rev().skip(40).take(16)
DecryptIv(buf) == Take(Skip(Rev(buf), 40), 16)

Derive(buf) ==
    [encrypt_key |-> EncryptKey(buf), encrypt_iv |-> EncryptIv(buf),
     decrypt_key |-> DecryptKey(buf), decrypt_iv |-> DecryptIv(buf)]

\* ------------------------------------------------------------ the client
\* What a client puts on the wire (the wire sequence handle_connection
\* reads): 56 header bytes in clear, header bytes 56..63, the length unit and
\* the payload, the last three encrypted with the client's sending cipher
\* (key = header[8..40), iv = header[40..56)) at keystream offsets 56, 64, 65.

Headers == {Zeros(64), Fill(64, 255), Ramp(64, 0)}

Nonces == {Fill(16, 171), Ramp(16, 1)}

LengthUnits == {0, 1, 10, 11}

\* auth_key_id values: 0 (no key yet) and 1.
AuthKeyIds == {<<0, 0, 0, 0>>, <<0, 0, 0, 1>>}

\* The well-formed handshake, and the scenarios tried: those that differ from
\* it in at most one of header, length unit, nonce and auth_key_id.
BaseScenario ==
    [hdr |-> Ramp(64, 0), k |-> 10, nonce |-> Fill(16, 171), auth |-> <<0, 0, 0, 0>>]

Scenarios ==
    {s \in [hdr : Headers, k : LengthUnits, nonce : Nonces, auth : AuthKeyIds] :
        Cardinality({f \in {"hdr", "k", "nonce", "auth"} : s[f] # BaseScenario[f]}) <= 1}

\* req_pq_multi#be7e8ef1 with the scenario's auth_key_id, a fixed message_id
\* and message_length 20.
ClientRequest(s) ==
    SerializeInt(s.auth)
    \o SerializeInt(<<24075, 28672, 0, 4>>)
    \o SerializeInt(<<0, 20>>)
    \o SerializeInt(<<48766, 36593>>)
    \o s.nonce

ClientPayload(s) == Take(ClientRequest(s) \o Fill(4 * s.k, 238), 4 * s.k)

ClientMessage(s) ==
    LET key == Take(Skip(s.hdr, 8), 32)
        iv == Take(Skip(s.hdr, 40), 16)
    IN Take(s.hdr, 56)
       \o ApplyKeystream(key, iv, 56, SubSeq(s.hdr, 57, 64))
       \o ApplyKeystream(key, iv, 64, <<s.k>> \o ClientPayload(s))

\* Places where a delivery (a TCP segment) may end.
CutPoints == {20, 56, 60, 65, 85}

\* ----------------------------------------------------------------- state

VARIABLES
    pc,               \* where the server process is
    conns,            \* handshake state of every accepted connection, in order
    reported,         \* number of errors main has logged
    waiting,          \* a client has connected and is not yet accepted
    msg,              \* the bytes the current client will put on the wire
    sent,             \* how many of them have reached the server's socket
    rcvd,             \* how many the BufReader has pulled from the socket
    bufpos,           \* how many have been consumed from the BufReader
    peer,             \* "open", "closed" (FIN) or "reset" (RST)
    written,          \* bytes written to the stream
    init,             \* [u8; 64]
    init_n,           \* the count returned by the read into init (unused by the code)
    encrypted_init,   \* [u8; 8]
    packet_len,       \* [u8; 1]
    filled,           \* progress of the read_exact in progress
    keys,             \* encrypt_key, encrypt_iv, decrypt_key, decrypt_iv
    cipher_pos,       \* keystream bytes `cipher` has produced
    packet,           \* vec![0; packet_len]
    packet_n,         \* the count returned by the read into packet (unused by the code)
    req,              \* req_pq_multi
    res_pq,           \* res_pq
    res_pq_mtproto,   \* the framed, encrypted response
    now,              \* the clock reading generate took (u128 nanoseconds)
    result            \* handle_connection's result: "None" while it runs

server == <<pc, conns, reported>>

stream == <<msg, sent, rcvd, bufpos, peer, written>>

bufs == <<init, init_n, encrypted_init, packet_len, filled>>

crypt == <<keys, cipher_pos>>

resp == <<req, res_pq, res_pq_mtproto, now>>

vars == <<server, waiting, stream, bufs, crypt, packet, packet_n, resp, result>>

Terminal == {"Sent", "Failed"}

States == {"AwaitHeader", "AwaitRequest", "BuiltResponse"} \cup Terminal

\* No clock reading taken.
NoClock == <<>>

\* The state of a freshly entered handle_connection, before any stream.
FreshLocals ==
    /\ init = Zeros(InitLen)
    /\ init_n = 0
    /\ encrypted_init = Zeros(EncryptedInitLen)
    /\ packet_len = <<0>>
    /\ filled = 0
    /\ keys = NoKeys
    /\ cipher_pos = 0
    /\ packet = <<>>
    /\ packet_n = 0
    /\ req = NoReq
    /\ res_pq = NoRes
    /\ res_pq_mtproto = <<>>
    /\ now = NoClock
    /\ result = "None"

NoStream ==
    /\ msg = <<>>
    /\ sent = 0
    /\ rcvd = 0
    /\ bufpos = 0
    /\ peer = "open"
    /\ written = <<>>

Init ==
    /\ pc = "accept"
    /\ conns = <<>>
    /\ reported = 0
    /\ waiting = FALSE
    /\ NoStream
    /\ FreshLocals

\* ------------------------------------------------- BufReader<&mut TcpStream>

\* A read on the BufReader returns (rather than blocks) when it holds
\* buffered bytes, or the socket has bytes, or the peer has closed or reset.
ReadReady == bufpos < rcvd \/ sent > rcvd \/ peer # "open"

\* The read goes to the socket only when the buffer is empty; a reset
\* connection then gives an error.
ReadFails == bufpos = rcvd /\ peer = "reset"

\* fill_buf: an empty buffer is refilled by one read of the socket, which
\* returns what has arrived, up to the buffer's capacity.
FillBuf == IF bufpos = rcvd THEN Min(sent, rcvd + BufCapacity) ELSE rcvd

\* BufReader::read into a buffer of n bytes: the count returned, the bytes.
ReadCount(n) == Min(n, FillBuf - bufpos)

ReadData(n) == SubSeq(msg, bufpos + 1, bufpos + ReadCount(n))

\* buf[at..at + data.len()] = data
Overwrite(buf, at, data) ==
    [i \in 1..Len(buf) |-> IF at < i /\ i <= at + Len(data) THEN data[i - at] ELSE buf[i]]

\* ------------------------------------------------------------ the server

SetState(st) == [conns EXCEPT ![Len(conns)] = st]

\* `?`: the error leaves handle_connection as its result.
Fail(kind) ==
    /\ pc' = "ret"
    /\ result' = kind
    /\ conns' = SetState("Failed")

\* A listener that hands out connections while one is being handled.
AcceptAnytime == pc # "panicked"

\* main's loop blocks in listener.incoming() only between two calls of
\* handle_connection.
AcceptReady == pc = "accept"

\* for stream in listener.incoming() { let stream = stream.unwrap();
\* handle_connection(stream) ...: entry into handle_connection.
Accept ==
    /\ AcceptReady
    /\ waiting
    /\ \E s \in Scenarios : msg' = ClientMessage(s)
    /\ waiting' = FALSE
    /\ conns' = Append(conns, "AwaitHeader")
    /\ pc' = "read_init"
    /\ UNCHANGED <<reported, sent, rcvd, bufpos, peer, written, bufs, crypt,
                   packet, packet_n, resp, result>>

\* listener.incoming() yields Err; stream.unwrap() panics.
AcceptPanic ==
    /\ pc = "accept"
    /\ pc' = "panicked"
    /\ UNCHANGED <<conns, reported, waiting, stream, bufs, crypt, packet,
                   packet_n, resp, result>>

\* buf_reader.by_ref().take(56).read(&mut init)?
ReadInit ==
    /\ pc = "read_init"
    /\ ReadReady
    /\ IF ReadFails
       THEN /\ Fail("Io")
            /\ UNCHANGED <<rcvd, bufpos, init, init_n>>
       ELSE /\ rcvd' = FillBuf
            /\ bufpos' = bufpos + ReadCount(PrefixLen)
            /\ init' = Overwrite(init, 0, ReadData(PrefixLen))
            /\ init_n' = ReadCount(PrefixLen)
            /\ pc' = "read_encrypted_init"
            /\ UNCHANGED <<conns, result>>
    /\ UNCHANGED <<reported, waiting, msg, sent, peer, written, encrypted_init,
                   packet_len, filled, crypt, packet, packet_n, resp>>

\* buf_reader.read_exact(&mut encrypted_init)?: one turn of its read loop.
ReadEncryptedInit ==
    /\ pc = "read_encrypted_init"
    /\ ReadReady
    /\ LET n == ReadCount(EncryptedInitLen - filled)
       IN IF ReadFails \/ n = 0
          THEN /\ Fail(IF ReadFails THEN "Io" ELSE "UnexpectedEof")
               /\ UNCHANGED <<rcvd, bufpos, encrypted_init, filled>>
          ELSE /\ rcvd' = FillBuf
               /\ bufpos' = bufpos + n
               /\ encrypted_init' =
                      Overwrite(encrypted_init, filled, ReadData(EncryptedInitLen - filled))
               /\ filled' = IF filled + n = EncryptedInitLen THEN 0 ELSE filled + n
               /\ pc' = IF filled + n = EncryptedInitLen THEN "read_packet_len" ELSE pc
               /\ UNCHANGED <<conns, result>>
    /\ UNCHANGED <<reported, waiting, msg, sent, peer, written, init, init_n,
                   packet_len, crypt, packet, packet_n, resp>>

\* buf_reader.read_exact(&mut packet_len)?
ReadPacketLen ==
    /\ pc = "read_packet_len"
    /\ ReadReady
    /\ IF ReadFails \/ ReadCount(1) = 0
       THEN /\ Fail(IF ReadFails THEN "Io" ELSE "UnexpectedEof")
            /\ UNCHANGED <<rcvd, bufpos, packet_len>>
       ELSE /\ rcvd' = FillBuf
            /\ bufpos' = bufpos + 1
            /\ packet_len' = ReadData(1)
            /\ pc' = "derive"
            /\ UNCHANGED <<conns, result>>
    /\ UNCHANGED <<reported, waiting, msg, sent, peer, written, init, init_n,
                   encrypted_init, filled, crypt, packet, packet_n, resp>>

\* Lines 45-53: the four key/iv vectors, from the init buffer as it is.
DeriveKeys ==
    /\ pc = "derive"
    /\ keys' = Derive(init)
    /\ pc' = "init_cipher"
    /\ UNCHANGED <<conns, reported, waiting, stream, bufs, cipher_pos, packet,
                   packet_n, resp, result>>

\* The cipher applied to what the client sends.
CipherKey(k) == k.encrypt_key

CipherIv(k) == k.encrypt_iv

\* A cipher created anew for the length unit.
InitCipherFresh ==
    /\ pc = "init_cipher"
    /\ init' = ApplyKeystream(CipherKey(keys), CipherIv(keys), 0, init)
    /\ packet_len' = ApplyKeystream(CipherKey(keys), CipherIv(keys), 0, packet_len)
    /\ cipher_pos' = InitLen + 1
    /\ packet' = Zeros(packet_len'[1] * 4)
    /\ conns' = SetState("AwaitRequest")
    /\ pc' = "read_packet"
    /\ UNCHANGED <<reported, waiting, stream, init_n, encrypted_init, filled,
                   keys, packet_n, resp, result>>

\* Lines 55-65: the cipher is created, run over init and over packet_len;
\* the packet buffer is allocated with 4 * packet_len[0] zero bytes.
InitCipher ==
    /\ pc = "init_cipher"
    /\ init' = ApplyKeystream(CipherKey(keys), CipherIv(keys), 0, init)
    /\ packet_len' = ApplyKeystream(CipherKey(keys), CipherIv(keys), InitLen, packet_len)
    /\ cipher_pos' = InitLen + 1
    /\ packet' = Zeros(packet_len'[1] * 4)
    /\ conns' = SetState("AwaitRequest")
    /\ pc' = "read_packet"
    /\ UNCHANGED <<reported, waiting, stream, init_n, encrypted_init, filled,
                   keys, packet_n, resp, result>>

\* Lines 66-67: one read into packet, whatever it returns, then the cipher
\* over the whole packet buffer.
ReadPacket ==
    /\ pc = "read_packet"
    /\ ReadReady
    /\ IF ReadFails
       THEN /\ Fail("Io")
            /\ UNCHANGED <<rcvd, bufpos, packet, packet_n, cipher_pos>>
       ELSE /\ rcvd' = FillBuf
            /\ bufpos' = bufpos + ReadCount(Len(packet))
            /\ packet' = ApplyKeystream(CipherKey(keys), CipherIv(keys), cipher_pos,
                                        Overwrite(packet, 0, ReadData(Len(packet))))
            /\ packet_n' = ReadCount(Len(packet))
            /\ cipher_pos' = cipher_pos + Len(packet)
            /\ pc' = "parse"
            /\ UNCHANGED <<conns, result>>
    /\ UNCHANGED <<reported, waiting, msg, sent, peer, written, bufs, keys, resp>>

\* Lines 70-71: ReqPqMulti::parse(&mut cur)?
Parse ==
    /\ pc = "parse"
    /\ LET r == ReqPqMultiParse(packet)
       IN IF r.ok
          THEN /\ req' = r
               /\ pc' = "generate"
               /\ UNCHANGED <<conns, result>>
          ELSE /\ Fail("Deserialize")
               /\ UNCHANGED req
    /\ UNCHANGED <<reported, waiting, stream, bufs, crypt, packet, packet_n,
                   res_pq, res_pq_mtproto, now>>

\* What SystemTime::now() may return: a time before the epoch, or a count of
\* nanoseconds since the epoch (u128, 8 limbs).
ClockReadings ==
    {[before_epoch |-> TRUE, nanos |-> Zeros(8)],
     [before_epoch |-> FALSE, nanos |-> <<0, 0, 0, 0, 6360, 0, 0, 1>>],
     [before_epoch |-> FALSE, nanos |-> <<0, 0, 0, 0, 6360, 0, 0, 2>>]}

\* Lines 75-88: generate (duration_since(..).unwrap() panics before the
\* epoch), serialise, frame, encrypt; the clock gives one of readings.
GenerateWith(readings) ==
    /\ pc = "generate"
    /\ \E t \in readings :
          IF t.before_epoch
          THEN /\ pc' = "panicked"
               /\ UNCHANGED <<conns, res_pq, res_pq_mtproto, now>>
          ELSE LET r == ResPqGenerate(req.nonce, PQ, t.nanos)
               IN /\ now' = t.nanos
                  /\ res_pq' = r
                  /\ res_pq_mtproto' = ResPqMtproto(r, keys)
                  /\ conns' = SetState("BuiltResponse")
                  /\ pc' = "write"
    /\ UNCHANGED <<reported, waiting, stream, bufs, crypt, packet, packet_n, req, result>>

Generate == GenerateWith(ClockReadings)

\* A handler that, having written, stays at the write.
WriteAllAgain ==
    /\ pc = "write"
    /\ peer # "reset"
    /\ written' = written \o res_pq_mtproto
    /\ conns' = SetState("Sent")
    /\ UNCHANGED <<pc, result, reported, waiting, msg, sent, rcvd, bufpos, peer, bufs,
                   crypt, packet, packet_n, resp>>

\* Lines 89-99: stream.write_all(&res_pq_mtproto)?; Ok(())
WriteAll ==
    /\ pc = "write"
    /\ IF peer = "reset"
       THEN /\ Fail("Io")
            /\ UNCHANGED written
       ELSE /\ written' = res_pq_mtproto
            /\ result' = "Ok"
            /\ conns' = SetState("Sent")
            /\ pc' = "ret"
    /\ UNCHANGED <<reported, waiting, msg, sent, rcvd, bufpos, peer, bufs, crypt,
                   packet, packet_n, resp>>

\* A main that unwraps handle_connection's result.
AfterHandleUnwrap(res) == IF res # "Ok" THEN "panicked" ELSE "accept"

\* main, lines 23-27: where the loop goes with handle_connection's result,
\* and how many errors it has logged.
AfterHandle(res) == "accept"

Logged(res, n) == IF res # "Ok" THEN n + 1 ELSE n

\* handle_connection has returned: its locals and the stream are dropped,
\* an Err is logged, the loop goes on.
Return ==
    /\ pc = "ret"
    /\ pc' = AfterHandle(result)
    /\ reported' = Logged(result, reported)
    /\ msg' = <<>>
    /\ sent' = 0
    /\ rcvd' = 0
    /\ bufpos' = 0
    /\ peer' = "open"
    /\ written' = <<>>
    /\ init' = Zeros(InitLen)
    /\ init_n' = 0
    /\ encrypted_init' = Zeros(EncryptedInitLen)
    /\ packet_len' = <<0>>
    /\ filled' = 0
    /\ keys' = NoKeys
    /\ cipher_pos' = 0
    /\ packet' = <<>>
    /\ packet_n' = 0
    /\ req' = NoReq
    /\ res_pq' = NoRes
    /\ res_pq_mtproto' = <<>>
    /\ now' = NoClock
    /\ result' = "None"
    /\ UNCHANGED <<conns, waiting>>

\* ------------------------------------------------------------ the clients

\* A connection is being handled.
Handling == pc \notin {"accept", "ret", "panicked"}

\* The server has not yet made the last read of the connection: what arrives
\* later is never looked at.
Reading == pc \in {"read_init", "read_encrypted_init", "read_packet_len", "derive",
                   "init_cipher", "read_packet"}

\* A client connects; it waits in the listener's queue until accepted.
Connect ==
    /\ pc # "panicked"
    /\ ~waiting
    /\ Len(conns) < MaxConns
    /\ waiting' = TRUE
    /\ UNCHANGED <<server, stream, bufs, crypt, packet, packet_n, resp, result>>

\* The next bytes of the client's message reach the server's socket.
Deliver ==
    /\ Reading
    /\ peer = "open"
    /\ \E c \in CutPoints \cup {Len(msg)} :
          /\ sent < c
          /\ c <= Len(msg)
          /\ sent' = c
    /\ UNCHANGED <<server, waiting, msg, rcvd, bufpos, peer, written, bufs, crypt,
                   packet, packet_n, resp, result>>

\* The client closes its end: the server reads end-of-file after what arrived.
Close ==
    /\ Reading
    /\ peer = "open"
    /\ peer' = "closed"
    /\ UNCHANGED <<server, waiting, msg, sent, rcvd, bufpos, written, bufs, crypt,
                   packet, packet_n, resp, result>>

\* The connection is reset: reads and writes on the socket fail.
Reset ==
    /\ Handling
    /\ peer = "open"
    /\ peer' = "reset"
    /\ UNCHANGED <<server, waiting, msg, sent, rcvd, bufpos, written, bufs, crypt,
                   packet, packet_n, resp, result>>

Next ==
    \/ Connect
    \/ Accept
    \/ AcceptPanic
    \/ ReadInit
    \/ ReadEncryptedInit
    \/ ReadPacketLen
    \/ DeriveKeys
    \/ InitCipher
    \/ ReadPacket
    \/ Parse
    \/ Generate
    \/ WriteAll
    \/ Return
    \/ Deliver
    \/ Close
    \/ Reset

Spec == Init /\ [][Next]_vars

TypeOK ==
    /\ pc \in {"accept", "read_init", "read_encrypted_init", "read_packet_len",
               "derive", "init_cipher", "read_packet", "parse", "generate",
               "write", "ret", "panicked"}
    /\ conns \in Seq(States)
    /\ Len(conns) <= MaxConns
    /\ rcvd <= sent
    /\ bufpos <= rcvd
    /\ sent <= Len(msg)
    /\ \A i \in 1..Len(packet) : packet[i] \in 0..255
    /\ \A i \in 1..Len(written) : written[i] \in 0..255

\* ------------------------------------------------------------- properties

\* The handshake state of the latest connection.
CurState == IF conns = <<>> THEN "None" ELSE conns[Len(conns)]

\* Size of the fixed request layout: i64, i64, u32, u32, [u8; 16].
RequestLayoutLen == 8 + 8 + 4 + 4 + 16

\* The response as the client recovers it from the bytes written, with a
\* fresh cipher under the given key and iv.
Decrypted(key, iv) == ApplyKeystream(key, iv, 0, written)

\* Bytes of the serialised ResPq inside the frame: the magic, the nonce.
FrameMagic(plain) == SubSeq(plain, 22, 25)

FrameNonce(plain) == SubSeq(plain, 26, 41)

\* C1: for every connection that reaches the write step, the nonce field of
\* the response that is serialised and sent equals the 16-byte nonce decoded
\* from that connection's own request, whatever the nonce and however many
\* connections came before.
C1_NonceEchoed ==
    /\ pc = "write" =>
          /\ res_pq.nonce = SubSeq(packet, 25, 40)
          /\ FrameNonce(ApplyKeystream(keys.decrypt_key, keys.decrypt_iv, 0, res_pq_mtproto))
                 = SubSeq(packet, 25, 40)
    /\ written # <<>> =>
          FrameNonce(Decrypted(keys.decrypt_key, keys.decrypt_iv)) = SubSeq(packet, 25, 40)

\* C1 witness: a second connection has its response written, for a nonce
\* other than the base scenario's.
C1_Witness ==
    /\ Len(conns) = 2
    /\ written # <<>>
    /\ SubSeq(packet, 25, 40) = Ramp(16, 1)

\* C2: when the decrypted length unit announces a payload too short for the
\* fixed request layout (k = 0 and k = 1 among them), handle_connection ends
\* in failure and writes nothing; and nothing is ever written to a
\* connection whose request did not parse.
C2_NoResponseWithoutRequest ==
    /\ (cipher_pos > 0 /\ Len(packet) < RequestLayoutLen) =>
          /\ ~req.ok
          /\ pc \in {"read_packet", "parse", "ret"}
          /\ written = <<>>
          /\ pc = "ret" => (result \notin {"None", "Ok"} /\ CurState = "Failed")
    /\ written # <<>> => req.ok

\* C2 witness: the length unit 1 was read, the parse failed, the handler
\* has returned its error and nothing was written.
C2_Witness ==
    /\ pc = "ret"
    /\ packet_len = <<1>>
    /\ Len(packet) = 4
    /\ result = "Deserialize"
    /\ written = <<>>

\* C3 (as claimed): the driver reads exactly 4k bytes as the payload, however
\* the client's bytes are split into deliveries: what is decrypted and parsed
\* is exactly the next 4k bytes the client sent.  (Stated for connections
\* whose header prefix was read whole.)
C3_ReadsWholePayload ==
    (pc = "parse" /\ init_n = PrefixLen) =>
       /\ packet_n = Len(packet)
       /\ ApplyKeystream(keys.encrypt_key, keys.encrypt_iv, InitLen + 1, packet)
              = SubSeq(msg, bufpos - Len(packet) + 1, bufpos)

\* C4 (as claimed): a read that returns fewer bytes than the 56-byte header
\* prefix fails the connection; no keys are derived from a partly filled
\* header and the bytes after it are not taken from inside the prefix.
C4_ShortHeaderFails ==
    (init_n < PrefixLen /\ pc \notin {"accept", "read_init"}) =>
       /\ result \notin {"None", "Ok"}
       /\ keys = NoKeys

\* C5 (as claimed): the parse fails whenever the framed payload has bytes
\* left after the five fixed fields, so a parsed request consumed the whole
\* packet.  (Stated for connections whose header prefix and payload were read
\* whole.)
C5_TrailingBytesRejected ==
    (req.ok /\ init_n = PrefixLen /\ packet_n = Len(packet)) => req.consumed = Len(packet)

\* The header bytes the client sent in clear, by 0-based position lo..hi.
HeaderBytes(lo, hi) == SubSeq(msg, lo + 1, hi + 1)

\* The response is framed and carries the request's nonce and the magic
\* 0x05162463.
FramedResponse(plain) ==
    /\ Len(plain) = 1 + Len(ResPqSer(res_pq))
    /\ plain[1] = Len(ResPqSer(res_pq)) \div 4
    /\ SubSeq(plain, 2, Len(plain)) = ResPqSer(res_pq)
    /\ FrameMagic(plain) = <<99, 36, 22, 5>>
    /\ FrameNonce(plain) = req.nonce

\* C6 (as claimed): the bytes written are encrypted under key = header bytes
\* [8..40), iv = header bytes [40..56), in header order.
C6_OutputUnderForwardKey ==
    (written # <<>> /\ init_n = PrefixLen) =>
       FramedResponse(Decrypted(HeaderBytes(8, 39), HeaderBytes(40, 55)))

\* C6 (amended): the bytes written are encrypted, from keystream offset 0,
\* under the reverse-derived pair: key = header bytes 55 down to 24, iv =
\* header bytes 23 down to 8.  Decrypting them with a fresh cipher under that
\* pair gives the length byte and the serialised ResPq with the request's
\* nonce and the magic 0x05162463.
C6_OutputUnderReverseKey ==
    (written # <<>> /\ init_n = PrefixLen) =>
       FramedResponse(Decrypted(Rev(HeaderBytes(24, 55)), Rev(HeaderBytes(8, 23))))

\* C6 witness: a response was written on a connection whose forward and
\* reverse keys differ.
C6_Witness ==
    /\ written # <<>>
    /\ init_n = PrefixLen
    /\ HeaderBytes(8, 39) # Rev(HeaderBytes(24, 55))

\* C7 (as claimed): for every header the two derived keys differ and the two
\* derived ivs differ.  (Stated for connections whose header prefix was read
\* whole.)
C7_KeysAlwaysDiffer ==
    (keys # NoKeys /\ init_n = PrefixLen) =>
       /\ keys.encrypt_key # keys.decrypt_key
       /\ keys.encrypt_iv # keys.decrypt_iv

\* C7 (amended): the two keys differ exactly when header bytes 8..39 are not
\* the mirror image of bytes 24..55, and the two ivs differ exactly when
\* bytes 40..55 are not the mirror image of bytes 8..23; for the all-zero and
\* the all-0xFF header both pairs are equal.  (Stated where the keys have
\* been derived and init still holds the header as read.)
C7_KeysDifferUnlessMirrored ==
    pc = "init_cipher" =>
       /\ (keys.encrypt_key # keys.decrypt_key)
              <=> (\E i \in 0..31 : init[9 + i] # init[56 - i])
       /\ (keys.encrypt_iv # keys.decrypt_iv)
              <=> (\E i \in 0..15 : init[41 + i] # init[24 - i])

\* C7 witness: keys derived from the all-0xFF header prefix, equal in both
\* directions.
C7_Witness ==
    /\ pc = "init_cipher"
    /\ init_n = PrefixLen
    /\ SubSeq(init, 1, PrefixLen) = Fill(PrefixLen, 255)
    /\ keys.encrypt_key = keys.decrypt_key
    /\ keys.encrypt_iv = keys.decrypt_iv

\* Failed connections whose error main has not logged yet.
Unreported == IF pc = "ret" /\ result # "Ok" THEN 1 ELSE 0

\* C8: when handle_connection fails, the error is reported, the connection
\* is abandoned with no step retried, and the loop goes on to accept: no
\* step of the handshake runs for a failed connection, every failure is
\* logged exactly once, and the step that follows a failed return leaves the
\* server at the accept with the connection's state dropped.
C8_FailureIsolated ==
    /\ [](/\ CurState = "Failed" => pc \in {"ret", "accept", "panicked"}
          /\ (pc = "accept" /\ waiting) => ENABLED Accept
          /\ reported + Unreported = Cardinality({i \in 1..Len(conns) : conns[i] = "Failed"})
          /\ pc = "ret" => (result # "Ok" <=> CurState = "Failed"))
    /\ [][(pc = "ret" /\ result # "Ok" /\ pc' # pc) =>
             /\ pc' = "accept"
             /\ reported' = reported + 1
             /\ conns' = conns
             /\ written' = <<>>
             /\ result' = "None"]_vars

\* C8 witness: a connection failed and a later one was handled to the end.
C8_Witness ==
    /\ Len(conns) = 2
    /\ conns[1] = "Failed"
    /\ conns[2] = "Sent"
    /\ reported = 1

\* C9 (as claimed): no error ever terminates the server process.
C9_NeverTerminates == pc # "panicked"

\* The server is inside a read that cannot return: no buffered byte, nothing
\* arrived, the peer neither closed nor reset.
Blocked ==
    /\ pc \in {"read_init", "read_encrypted_init", "read_packet_len", "read_packet"}
    /\ ~ReadReady

\* C10: connections are handled strictly one at a time: every connection
\* but the latest is in Sent or Failed, a connection is accepted only from
\* the accept loop after the one before it ended, and while the current
\* client stays silent nothing moves on the server: no later connection is
\* accepted.
C10_OneAtATime ==
    /\ [](\A i \in 1..(Len(conns) - 1) : conns[i] \in Terminal)
    /\ [][Len(conns') > Len(conns) =>
             /\ pc = "accept"
             /\ Len(conns) > 0 => CurState \in Terminal]_vars
    /\ [][Blocked => (conns' = conns /\ pc' = pc)]_vars

\* C10 witness: a client waits, connected, while the server is blocked on
\* the silent client of the first connection.
C10_Witness ==
    /\ Len(conns) = 1
    /\ waiting
    /\ Blocked

\* The moves of the handshake state machine: one step forward, or from a
\* state that is not terminal to Failed.
Forward ==
    {<<"AwaitHeader", "AwaitRequest">>, <<"AwaitRequest", "BuiltResponse">>,
     <<"BuiltResponse", "Sent">>}
    \cup {<<st, "Failed">> : st \in States \ Terminal}

\* handle_connection has ended and the stream is dropped.
Dropped == pc = "ret" /\ pc' = "accept" /\ rcvd' = 0 /\ bufpos' = 0 /\ written' = <<>>

\* C13: a connection moves only AwaitHeader -> AwaitRequest ->
\* BuiltResponse -> Sent, or from a non-terminal state to Failed, without
\* skipping or revisiting a state; in Sent and Failed no step of the handler
\* runs and nothing more is read or written; what is written is written in
\* state Sent, after every read, and once.
C13_StateOrder ==
    /\ [](CurState \in Terminal => pc \in {"ret", "accept", "panicked"})
    /\ [](written # <<>> => CurState = "Sent" /\ written = res_pq_mtproto)
    /\ [][/\ Len(conns') \in {Len(conns), Len(conns) + 1}
          /\ \A i \in 1..Len(conns) :
                \/ conns'[i] = conns[i]
                \/ i = Len(conns) /\ Len(conns') = Len(conns)
                   /\ <<conns[i], conns'[i]>> \in Forward
          /\ Len(conns') = Len(conns) + 1 =>
                conns'[Len(conns')] = "AwaitHeader" /\ CurState \in Terminal \cup {"None"}]_vars
    /\ [][(CurState \in Terminal \/ written # <<>>) =>
             \/ rcvd' = rcvd /\ bufpos' = bufpos /\ written' = written
             \/ Dropped]_vars

\* A connection has gone all the way to Sent after reading the whole message,
\* and an earlier one has failed.
C13_Witness ==
    /\ Len(conns) = 2
    /\ conns[1] = "Failed"
    /\ conns[2] = "Sent"
    /\ pc = "ret"
    /\ written # <<>>
    /\ bufpos = Len(msg)

\* The key and iv have been derived from the init buffer, which is still as
\* it was read.
KeysDerived == pc = "init_cipher"

\* C14 (as stated): the reverse-derived key is bytes 8..39 of the
\* byte-reversed header, and the reverse-derived iv is found by skipping a
\* further 8 bytes after the key and taking 16: bytes 48..63 of the
\* reversed header.
C14_IvAfterFurtherSkip ==
    KeysDerived =>
        /\ keys.decrypt_key = [i \in 1..32 |-> init[InitLen - 8 + 1 - i]]
        /\ keys.decrypt_iv = [i \in 1..16 |-> init[InitLen - 48 + 1 - i]]

\* C14 (amended): the reverse-derived key is bytes 8..39 of the
\* byte-reversed header and the iv is the 16 bytes that follow it at once,
\* bytes 40..55 of the reversed header: header bytes 55 down to 24, and 23
\* down to 8.
C14_IvFollowsKey ==
    KeysDerived =>
        /\ keys.decrypt_key = [i \in 1..32 |-> init[InitLen - 8 + 1 - i]]
        /\ keys.decrypt_iv = [i \in 1..16 |-> init[InitLen - 40 + 1 - i]]

\* Keys derived from a whole header whose bytes all differ.
C14_Witness ==
    /\ KeysDerived
    /\ init_n = PrefixLen
    /\ init[9] # init[10]
    /\ keys.decrypt_iv[1] = init[24]
    /\ keys.decrypt_iv[16] = init[9]
    /\ keys.decrypt_iv[1] # init[16]

\* The seed of the keystream of the connection's cipher for incoming data.
InSeed == CipherSeed(keys.encrypt_key, keys.encrypt_iv)

\* The wire bytes msg[from + 1 .. from + n] in a zeroed buffer of len bytes.
RawBuffer(len, from, n) == Overwrite(Zeros(len), 0, SubSeq(msg, from + 1, from + n))

\* raw with byte i xored with keystream byte at + i - 1.
XoredAt(raw, seed, at) ==
    [i \in 1..Len(raw) |-> Xor(raw[i], KeystreamByte(seed, at + i - 1))]

\* The cipher has run over init and packet_len; over packet as well.
HeaderDecrypted == cipher_pos >= InitLen + 1

PacketDecrypted == HeaderDecrypted /\ (pc \in {"parse", "generate", "write"} \/ result \in {"Ok", "Deserialize"})

\* C15: the cipher for incoming data starts at keystream offset 0 on every
\* connection; it is applied to the 64-byte header buffer (offsets 0..63),
\* then to the length-unit byte (offset 64), then to payload byte i at offset
\* 65 + i; its position only advances, so no offset is used twice or skipped.
C15_KeystreamPositions ==
    /\ [](pc \in {"accept", "read_init", "read_encrypted_init", "read_packet_len",
                   "derive", "init_cipher"} => cipher_pos = 0)
    /\ [](HeaderDecrypted =>
            /\ init = XoredAt(RawBuffer(InitLen, 0, init_n), InSeed, 0)
            /\ packet_len = XoredAt(<<msg[init_n + EncryptedInitLen + 1]>>, InSeed, InitLen)
            /\ cipher_pos \in {InitLen + 1, InitLen + 1 + Len(packet)})
    /\ [](PacketDecrypted =>
            /\ cipher_pos = InitLen + 1 + Len(packet)
            /\ packet = XoredAt(RawBuffer(Len(packet), init_n + EncryptedInitLen + 1, packet_n),
                                InSeed, InitLen + 1))
    /\ [][cipher_pos' >= cipher_pos \/ (pc = "ret" /\ cipher_pos' = 0)]_vars

\* The second connection's cipher has run over a whole header, the length
\* unit and a whole payload of 40 bytes.
C15_Witness ==
    /\ Len(conns) = 2
    /\ pc = "parse"
    /\ init_n = PrefixLen
    /\ packet_n = 40
    /\ cipher_pos = InitLen + 1 + 40
    /\ packet[40] = Xor(msg[Len(msg)], KeystreamByte(InSeed, InitLen + 40))

\* C16: the 8 bytes read after the 56-byte prefix are the remaining header
\* bytes, decrypted with the derived cipher: once the keystream has been
\* applied, bytes 56..63 of the header buffer are those 8 bytes xored with
\* keystream bytes 56..63.
C16_TailDecrypted ==
    (HeaderDecrypted /\ init_n = PrefixLen) =>
        SubSeq(init, PrefixLen + 1, InitLen) = XoredAt(encrypted_init, InSeed, PrefixLen)

\* What the client recovers from the bytes written with a fresh cipher under
\* the key and iv of the server's encryptor.
WrittenPlain == Decrypted(keys.decrypt_key, keys.decrypt_iv)

\* C17 (as stated): the one byte removed from the front of the packed frame
\* is the length-indicator byte, so what is written is the serialized
\* PQResponse alone, encrypted from keystream offset 0, with no length byte.
C17_LengthByteRemoved ==
    written # <<>> =>
        LET ser == ResPqSer(res_pq)
        IN /\ AbridgedPack(ser)[1] = Len(ser) \div 4
           /\ WrittenPlain = ser

\* C17 (amended): the one byte removed from the front of the packed frame is
\* the transport tag 0xef; what is written is the length byte (length in
\* 4-byte words) followed by the serialized PQResponse, encrypted by a fresh
\* cipher from keystream offset 0.
C17_TagRemoved ==
    written # <<>> =>
        LET ser == ResPqSer(res_pq)
        IN /\ Len(written) = Len(ser) + 1
           /\ WrittenPlain[1] = Len(ser) \div 4
           /\ SubSeq(WrittenPlain, 2, Len(written)) = ser
           /\ AbridgedPack(ser) = <<AbridgedTag>> \o WrittenPlain

\* A response of 84 serialized bytes has been written as 85 bytes.
C17_Witness ==
    /\ written # <<>>
    /\ CurState = "Sent"
    /\ Len(ResPqSer(res_pq)) = 84
    /\ Len(written) = 85
    /\ WrittenPlain[1] = 21

\* C18: a response is built and sent only for a request whose decoded
\* auth_key_id is 0: whenever the connection is in BuiltResponse or Sent,
\* the parsed request's auth_key_id is 0.
C18_OnlyZeroAuthKey ==
    (CurState \in {"BuiltResponse", "Sent"} /\ req.ok
       /\ init_n = PrefixLen /\ packet_n = Len(packet)) =>
        req.auth_key_id = <<0, 0, 0, 0>>

\* Contents tried for the bytes outside header positions 8..55.
Junk == {Zeros(8), Fill(8, 255), Ramp(8, 1), encrypted_init}

\* C19: the reverse-derived key followed by the reverse-derived iv is the
\* byte reversal of the forward key followed by the forward iv, which are
\* the 48 bytes at header positions 8..55; neither pair depends on header
\* bytes 0..7 or on the 8 bytes read after the prefix.
C19_ReversePairMirrorsForward ==
    KeysDerived =>
        /\ keys.encrypt_key \o keys.encrypt_iv = SubSeq(init, 9, PrefixLen)
        /\ keys.decrypt_key \o keys.decrypt_iv = Rev(keys.encrypt_key \o keys.encrypt_iv)
        /\ Len(keys.encrypt_key) = 32 /\ Len(keys.decrypt_key) = 32
        /\ init = RawBuffer(InitLen, 0, init_n)
        /\ \A head \in Junk, tail \in Junk :
              Derive(Overwrite(Overwrite(init, 0, head), PrefixLen, tail)) = keys

\* Keys derived from a whole header of distinct bytes, with a nonzero
\* encrypted tail read after it.
C19_Witness ==
    /\ KeysDerived
    /\ init_n = PrefixLen
    /\ init[9] = 8
    /\ keys.decrypt_key[1] = 55
    /\ keys.decrypt_iv[16] = 8
    /\ encrypted_init # Zeros(EncryptedInitLen)

\* The length unit the client sent: wire byte 64 decrypted with the cipher
\* keyed by header bytes [8..40) and [40..56), at keystream offset 64.
ClientLengthUnit ==
    Xor(msg[InitLen + 1],
        KeystreamByte(CipherSeed(SubSeq(msg, 9, 40), SubSeq(msg, 41, PrefixLen)), InitLen))

\* The client has delivered its whole message, with a length unit of at
\* least 10, and the connection has neither been closed nor reset.
DeliveredWhole ==
    /\ msg # <<>>
    /\ ClientLengthUnit >= 10
    /\ Len(msg) = InitLen + 1 + 4 * ClientLengthUnit
    /\ sent = Len(msg)
    /\ peer = "open"

\* C20: when the client delivers the 56-byte prefix, the 8 following bytes,
\* a length unit k >= 10 and 4k payload bytes, and no read or write fails,
\* handle_connection ends only in Sent, with one response written and Ok
\* returned to main's loop: it never ends in Failed and never ends the
\* process.
C20_DeliveredIsAnswered ==
    (DeliveredWhole /\ pc \in {"ret", "panicked"}) =>
        /\ pc = "ret"
        /\ result = "Ok"
        /\ CurState = "Sent"
        /\ Len(written) = Len(ResPqSer(res_pq)) + 1

\* ------------------------------------------------ the ReqPqMulti codec alone
\* ReqPqMulti::parse as a pure function: a PQRequest value is drawn, put in
\* its wire form and parsed by the Parse step of handle_connection.

\* The wire form of a PQRequest value: auth_key_id (8 bytes little-endian),
\* message_id (8), message_length (4), magic (4), nonce (16, verbatim).
ReqPqMultiSer(r) ==
    SerializeInt(r.auth_key_id)
    \o SerializeInt(r.message_id)
    \o SerializeInt(r.message_length)
    \o SerializeInt(r.magic)
    \o r.nonce

\* PQRequest values: zero, mixed, sign-bit and all-ones field values.
RequestValues ==
    [ok : {TRUE},
     auth_key_id : {<<0, 0, 0, 0>>, <<0, 0, 0, 1>>, <<65535, 65535, 65535, 65535>>},
     message_id : {<<24075, 28672, 0, 4>>, <<32768, 0, 0, 0>>, <<258, 772, 1286, 1800>>},
     message_length : {<<0, 20>>, <<65535, 65280>>},
     magic : {<<48766, 36593>>, <<1, 2>>},
     nonce : Nonces,
     consumed : {RequestLayoutLen}]

CodecInit ==
    /\ pc = "serialize"
    /\ req \in RequestValues
    /\ conns = <<"AwaitRequest">>
    /\ reported = 0
    /\ waiting = FALSE
    /\ NoStream
    /\ init = Zeros(InitLen)
    /\ init_n = 0
    /\ encrypted_init = Zeros(EncryptedInitLen)
    /\ packet_len = <<0>>
    /\ filled = 0
    /\ keys = NoKeys
    /\ cipher_pos = 0
    /\ packet = <<>>
    /\ packet_n = 0
    /\ res_pq = NoRes
    /\ res_pq_mtproto = <<>>
    /\ now = NoClock
    /\ result = "None"

\* The value goes on the wire and arrives whole in the packet buffer.
CodecSerialize ==
    /\ pc = "serialize"
    /\ packet' = ReqPqMultiSer(req)
    /\ packet_n' = Len(packet')
    /\ pc' = "parse"
    /\ UNCHANGED <<conns, reported, waiting, stream, bufs, crypt, resp, result>>

CodecNext ==
    \/ CodecSerialize
    \/ Parse

CodecSpec == CodecInit /\ [][CodecNext]_vars

\* C11: parsing the wire form of a PQRequest value (auth_key_id, message_id,
\* message_length, magic little-endian, then the nonce verbatim) yields
\* exactly the five field values the wire form was made from.
C11_ParseRoundTrip ==
    [][pc = "parse" =>
          /\ pc' = "generate"
          /\ req'.ok
          /\ req'.auth_key_id = req.auth_key_id
          /\ req'.message_id = req.message_id
          /\ req'.message_length = req.message_length
          /\ req'.magic = req.magic
          /\ req'.nonce = req.nonce]_vars

\* A value with a negative auth_key_id and a high-bit message_length has
\* been parsed back.
C11_Witness ==
    /\ pc = "generate"
    /\ req.ok
    /\ req.auth_key_id = <<65535, 65535, 65535, 65535>>
    /\ req.message_id = <<258, 772, 1286, 1800>>
    /\ req.message_length = <<65535, 65280>>
    /\ packet = ReqPqMultiSer(req)
    /\ packet[9] = 8
    /\ packet[17] = 0
    /\ packet[20] = 255

\* --------------------------------------------------- ResPq::generate alone
\* generate as a function of the clock: responses are generated one after
\* another, each at a clock reading drawn from ClockSamples.

\* Largest low limb of the nanosecond counts tried.
MaxTick == 5

\* Nanosecond counts around now (2026), around 2^63 (the year 2262) and
\* around 2^64.
ClockSamples ==
    {[before_epoch |-> FALSE, nanos |-> <<0, 0, 0, h, a, 0, 0, b>>] :
        h \in {0, 1}, a \in {0, 6360, 32767, 32768, 65535}, b \in 0..MaxTick}

\* Unsigned order of two equally long limb sequences.
RECURSIVE LessLimbs(_, _)
LessLimbs(a, b) ==
    IF a = <<>> THEN FALSE
    ELSE IF Head(a) # Head(b) THEN Head(a) < Head(b)
    ELSE LessLimbs(Tail(a), Tail(b))

\* Order of two i64 values held as 4 limbs (two's complement).
LessI64(a, b) ==
    LET nega == a[1] >= 32768
        negb == b[1] >= 32768
    IN IF nega # negb THEN nega ELSE LessLimbs(a, b)

ClockInit ==
    /\ pc = "generate"
    /\ req = ReqPqMultiParse(ClientRequest(BaseScenario))
    /\ conns = <<"AwaitRequest">>
    /\ reported = 0
    /\ waiting = FALSE
    /\ NoStream
    /\ init = Zeros(InitLen)
    /\ init_n = 0
    /\ encrypted_init = Zeros(EncryptedInitLen)
    /\ packet_len = <<0>>
    /\ filled = 0
    /\ keys = Derive(Ramp(InitLen, 0))
    /\ cipher_pos = 0
    /\ packet = <<>>
    /\ packet_n = 0
    /\ res_pq = NoRes
    /\ res_pq_mtproto = <<>>
    /\ now = NoClock
    /\ result = "None"

ClockGenerate == GenerateWith(ClockSamples)

\* The next response is asked for.
ClockAgain ==
    /\ pc = "write"
    /\ pc' = "generate"
    /\ UNCHANGED <<conns, reported, waiting, stream, bufs, crypt, packet, packet_n,
                   resp, result>>

ClockNext ==
    \/ ClockGenerate
    \/ ClockAgain

ClockSpec == ClockInit /\ [][ClockNext]_vars

\* C12: of two responses generated at clock readings t1 < t2 (nanoseconds
\* since the epoch), the second has the strictly greater message_id (the
\* nanosecond count converted to i64).
C12_MessageIdIncreases ==
    [][(res_pq.ok /\ res_pq'.ok /\ now # now' /\ LessLimbs(now, now'))
          => LessI64(res_pq.message_id, res_pq'.message_id)]_vars

====
